---- MODULE Spec2Model ----
(***************************************************************************)
(* Model of generate_mock_data.py (kimmokii/player_data_demo): the player  *)
(* population generator, the team, experiment and DAU curve generators and *)
(* the day loop of the activity generator with its batched persistence.    *)
(*                                                                         *)
(* Time is counted in whole seconds since START_DATE 00:00 UTC; every      *)
(* datetime the script builds has zero microseconds, so isoformat(         *)
(* timespec="seconds") loses nothing and a timestamp is its second count.  *)
(* Money is counted in cents.                                              *)
(*                                                                         *)
(* Random draws are nondeterministic choices.  A "run profile" D is a      *)
(* record of the sets the draws of one specification are taken from; the   *)
(* actions are written once, over D, and each specification instantiates   *)
(* them with its profile.                                                  *)
(***************************************************************************)
EXTENDS Integers, Sequences, FiniteSets, TLC

VARIABLES
    NUM_DAYS,               \* module global: length of the horizon in days
    num_players,            \* generate_players: its parameter
    players,                \* list of PlayerMeta, players[i].player_id = i
    pc,                     \* position of the script
    dau_curve,              \* generate_sessions_events_purchases: its parameter
    players_sorted,         \* player ids sorted by created_at
    active_pool,            \* list of player ids
    idx_new,                \* admission index into players_sorted (0-based)
    session_rows,           \* buffers
    event_rows,
    purchase_rows,
    session_id_counter,
    event_id_counter,
    purchase_id_counter,
    match_id_counter,
    day_idx,                \* for day_idx, day_start in enumerate(days)
    active_players_today,   \* random.sample(active_pool, target_dau)
    ap_i,                   \* number of players of the day already taken
    p,                      \* player id of the current iteration (0: none)
    sessions_left,          \* iterations left of `for _ in range(sessions_today)`
    cur,                    \* locals of the current session
    matches_left,           \* iterations left of `for _m in range(num_matches)`
    db,                     \* rows inserted through conn, in insertion order
    shuffled_players,       \* generate_teams_and_memberships: player ids, shuffled
    team_i,                 \* its index `i` into shuffled_players (0-based)
    team_rows,
    membership_rows,
    next_team_id,
    next_membership_id,
    experiment_rows,        \* generate_experiments: its list `rows`
    rel                     \* generate_dau_curve: relative values, one per day

playerVars == <<NUM_DAYS, num_players, players>>
loopVars == <<day_idx, active_players_today, ap_i, p, sessions_left, cur, matches_left>>
poolVars == <<dau_curve, players_sorted, active_pool, idx_new>>
rowVars == <<session_rows, event_rows, purchase_rows, db>>
counterVars == <<session_id_counter, event_id_counter, purchase_id_counter, match_id_counter>>
teamVars == <<shuffled_players, team_i, team_rows, membership_rows,
              next_team_id, next_membership_id>>
genVars == <<teamVars, experiment_rows, rel>>
vars == <<playerVars, pc, poolVars, rowVars, counterVars, loopVars, genVars>>

-----------------------------------------------------------------------------
(* Bounds of the model *)

MaxHorizon == 10        \* short horizons 1..MaxHorizon, beside the configured one
MaxGenPlayers == 2      \* generate_players: population sizes 1..MaxGenPlayers
MaxExtraLife == 2       \* int(random.expovariate(..)) drawn from 0..MaxExtraLife

-----------------------------------------------------------------------------
(* Configuration and utilities *)

NUM_DAYS_CONFIGURED == 180

SECONDS_PER_DAY == 24 * 60 * 60

Min(a, b) == IF a <= b THEN a ELSE b

Max(a, b) == IF a >= b THEN a ELSE b

\* datetime.date(): the calendar day of a timestamp, as a day index
DateOf(t) == t \div SECONDS_PER_DAY

\* daterange(START_DATE, NUM_DAYS)[i]
DayStart(i) == i * SECONDS_PER_DAY

\* random.randint(a, b) raises ValueError on an empty range
RandintRaises(a, b) == a > b

\* the outcomes of random.randint(a, b) that are drawn, by width w: the low
\* end (0), both ends (1), or the whole range when it is short and else its
\* ends and its middle (2)
Randint(w, a, b) ==
    IF w = 0 THEN {a}
    ELSE IF w = 1 THEN {a, b}
    ELSE IF b - a <= 3 THEN a..b
    ELSE {a, (a + b) \div 2, b}

\* pick_country_and_tz: the (country, offset) table
TZ_CHOICES ==
    << <<"US", -5>>, <<"US", -8>>, <<"CA", -5>>, <<"GB", 0>>, <<"DE", 1>>,
       <<"FR", 1>>, <<"BR", -3>>, <<"IN", 5>>, <<"JP", 9>>, <<"KR", 9>>,
       <<"OTHER", 0>> >>

\* the time-zone offsets pick_country_and_tz can return
pick_country_and_tz == {TZ_CHOICES[i][2] : i \in 1..Len(TZ_CHOICES)}

ENGAGEMENT_SEGMENTS == {"casual", "midcore", "heavy"}

SPEND_SEGMENTS == {"whale", "dolphin", "minnow", "nonpayer"}

-----------------------------------------------------------------------------
(* generate_players *)

\* the four buckets of the creation-date draw: the arguments of randint
OffsetRange(bucket, h) ==
    CASE bucket = 1 -> <<0, 3>>
      [] bucket = 2 -> <<4, Min(30, h - 1)>>
      [] bucket = 3 -> <<31, Min(90, h - 1)>>
      [] OTHER      -> <<91, h - 1>>

\* offset_days = max(0, min(offset_days, NUM_DAYS - 1))
ClipOffset(o, h) == Max(0, Min(o, h - 1))

\* mutant of ChurnDay: the extra lifetime may be zero
ChurnDayZeroExtraLife(core, e, birth, h) ==
    IF core THEN h - 1
    ELSE Min(h - 1, birth + e)

\* mutant of ChurnDay: the lifetime is not clamped to the horizon
ChurnDayUnclamped(core, e, birth, h) ==
    IF core THEN h - 1
    ELSE birth + Max(1, e)

\* churn_day_idx of a player born on day birth: "core" players stay until the
\* last day, the others live max(1, e) extra days, clamped to the horizon
ChurnDay(core, e, birth, h) ==
    IF core THEN h - 1
    ELSE Min(h - 1, birth + Max(1, e))

\* PlayerMeta.__init__
PlayerMeta(pid, created_at, tz, eng, spend, churn) ==
    [player_id |-> pid, created_at |-> created_at, time_zone_offset |-> tz,
     engagement_segment |-> eng, spend_segment |-> spend,
     level |-> 1, total_spend_eur |-> 0, churn_day_idx |-> churn]

\* one iteration of the loop of generate_players that does not raise: the
\* players it can append for a bucket of the creation-date draw
PlayersOfBucket(D, h, pid, bucket) ==
    LET r == OffsetRange(bucket, h)
    IN  {PlayerMeta(pid, DayStart(ClipOffset(o, h)), tz, eng, spend,
                    ChurnDay(core, e, ClipOffset(o, h), h)) :
            o \in Randint(2, r[1], r[2]), tz \in pick_country_and_tz \cap D.tz,
            eng \in ENGAGEMENT_SEGMENTS \cap D.eng,
            spend \in SPEND_SEGMENTS \cap D.spend,
            core \in BOOLEAN, e \in 0..D.maxExtraLife}

BucketRaises(bucket, h) ==
    LET r == OffsetRange(bucket, h) IN RandintRaises(r[1], r[2])

\* the populations generate_players(n) can return under horizon h
Populations(D, h, n) ==
    LET one == UNION {PlayersOfBucket(D, h, 0, b) :
                        b \in {b \in 1..4 : ~BucketRaises(b, h)}}
    IN  {[i \in 1..n |-> [f[i] EXCEPT !.player_id = i]] : f \in [1..n -> one]}

\* profile of the population runs: every horizon, every creation-date draw,
\* one value for the attributes the creation and churn days do not depend on
PlayersRun ==
    [tz |-> {0}, eng |-> {"casual"}, spend |-> {"nonpayer"},
     maxExtraLife |-> MaxExtraLife]

\* the state of generate_sessions_events_purchases before its day loop
InitLocals ==
    /\ active_pool = <<>>
    /\ idx_new = 0
    /\ session_rows = <<>>
    /\ event_rows = <<>>
    /\ purchase_rows = <<>>
    /\ session_id_counter = 1
    /\ event_id_counter = 1
    /\ purchase_id_counter = 1
    /\ match_id_counter = 1
    /\ day_idx = 0
    /\ active_players_today = <<>>
    /\ ap_i = 0
    /\ p = 0
    /\ sessions_left = 0
    /\ cur = [session_id |-> 0, session_start |-> 0, duration_sec |-> 0,
              match_start_time |-> 0]
    /\ matches_left = 0
    /\ db = <<>>

\* the locals of generate_teams_and_memberships, generate_experiments and
\* generate_dau_curve before their loops
InitGenerators ==
    /\ shuffled_players = <<>>
    /\ team_i = 0
    /\ team_rows = <<>>
    /\ membership_rows = <<>>
    /\ next_team_id = 1
    /\ next_membership_id = 1
    /\ experiment_rows = <<>>
    /\ rel = <<>>

InitPlayers ==
    /\ NUM_DAYS \in (1..MaxHorizon) \cup {NUM_DAYS_CONFIGURED}
    /\ num_players \in 1..MaxGenPlayers
    /\ players = <<>>
    /\ pc = "generate_players"
    /\ dau_curve = <<>>
    /\ players_sorted = <<>>
    /\ InitLocals
    /\ InitGenerators

\* one iteration of `for pid in range(1, num_players + 1)`
GenPlayer ==
    /\ pc = "generate_players"
    /\ Len(players) < num_players
    /\ \E bucket \in 1..4 :
          IF BucketRaises(bucket, NUM_DAYS)
          THEN /\ pc' = "raised"
               /\ UNCHANGED players
          ELSE /\ \E q \in PlayersOfBucket(PlayersRun, NUM_DAYS, Len(players) + 1, bucket) :
                      players' = Append(players, q)
               /\ UNCHANGED pc
    /\ UNCHANGED <<NUM_DAYS, num_players, poolVars, rowVars, counterVars, loopVars,
                   genVars>>

\* return players
GenReturn ==
    /\ pc = "generate_players"
    /\ Len(players) = num_players
    /\ pc' = "players_done"
    /\ UNCHANGED <<playerVars, poolVars, rowVars, counterVars, loopVars, genVars>>

NextPlayers == GenPlayer \/ GenReturn

SpecPlayers == InitPlayers /\ [][NextPlayers]_vars

-----------------------------------------------------------------------------
(* generate_sessions_events_purchases *)

BATCH_SIZE == 3         \* 50_000 in the script, scaled to the runs of the model

LOCAL_HOURS == {12, 15, 18, 20, 22}

GAME_MODES == {"solo", "duo", "team"}

OUTCOMES == {"win", "loss", "draw"}

\* the product catalogue, prices as int(round(price_eur * 100))
PRODUCTS ==
    << [sku |-> "soft_small", price_cents |-> 199],
       [sku |-> "soft_large", price_cents |-> 999],
       [sku |-> "hard_small", price_cents |-> 499],
       [sku |-> "hard_large", price_cents |-> 1999],
       [sku |-> "bundle", price_cents |-> 999] >>

RECURSIVE InsertSorted(_, _, _)
\* insert player id q into the list s of ids, after every id whose player was
\* not created later (sorted() is stable)
InsertSorted(pl, s, q) ==
    IF s = <<>> THEN <<q>>
    ELSE IF pl[s[Len(s)]].created_at <= pl[q].created_at THEN Append(s, q)
    ELSE Append(InsertSorted(pl, SubSeq(s, 1, Len(s) - 1), q), s[Len(s)])

RECURSIVE SortedByCreation(_, _)
\* sorted(players, key=lambda p: p.created_at), as the ids of the first n players
SortedByCreation(pl, n) ==
    IF n = 0 THEN <<>>
    ELSE InsertSorted(pl, SortedByCreation(pl, n - 1), n)

\* mutant of Evict: churned players stay in the pool
EvictNothing(pl, pool, d) == pool

\* [p for p in active_pool if p.churn_day_idx >= day_idx], under `if active_pool`
Evict(pl, pool, d) ==
    IF pool # <<>>
    THEN SelectSeq(pool, LAMBDA q : pl[q].churn_day_idx >= d)
    ELSE pool

RECURSIVE AdmitAfterCreationDay(_, _, _, _)
\* mutant of AdmitUpTo: a player is admitted on the day after the creation day
AdmitAfterCreationDay(pl, sorted, i, d) ==
    IF i < Len(sorted) /\ DateOf(pl[sorted[i + 1]].created_at) < DateOf(DayStart(d))
    THEN AdmitAfterCreationDay(pl, sorted, i + 1, d)
    ELSE i

RECURSIVE AdmitUpTo(_, _, _, _)
\* the value of idx_new after the admission loop of day d
AdmitUpTo(pl, sorted, i, d) ==
    IF i < Len(sorted) /\ DateOf(pl[sorted[i + 1]].created_at) <= DateOf(DayStart(d))
    THEN AdmitUpTo(pl, sorted, i + 1, d)
    ELSE i

\* mutant of PoolOfDay: the admission scan starts over at the first player
PoolOfDayRescan(pl, sorted, pool, i, d) ==
    Evict(pl, pool, d) \o SubSeq(sorted, 1, AdmitUpTo(pl, sorted, i, d))

\* the active pool of day d after eviction and admission
PoolOfDay(pl, sorted, pool, i, d) ==
    Evict(pl, pool, d) \o SubSeq(sorted, i + 1, AdmitUpTo(pl, sorted, i, d))

\* mutant of Sample: drawn with replacement
SampleWithReplacement(pool, k) ==
    {[i \in 1..k |-> pool[f[i]]] : f \in [1..k -> 1..Len(pool)]}

\* random.sample(pool, k): every list of k elements at distinct positions
Sample(pool, k) ==
    {[i \in 1..k |-> pool[f[i]]] :
        f \in {g \in [1..k -> 1..Len(pool)] :
                \A i, j \in 1..k : i # j => g[i] # g[j]}}

\* the session counts a player of an engagement segment can draw
SessionsToday(seg) ==
    CASE seg = "casual"  -> {1, 2, 3}
      [] seg = "midcore" -> {1, 2, 3, 4}
      [] OTHER           -> 2..10

\* the range of soft_delta for an outcome
SoftDeltaRange(outcome) ==
    CASE outcome = "win"  -> <<15, 40>>
      [] outcome = "loss" -> <<5, 20>>
      [] OTHER            -> <<5, 25>>

\* mutant of SessionStartUtc: the local time of day is left out
SessionStartUtcNoLocalTime(d, local_hour, local_minute, tz) ==
    DayStart(d) - tz * 3600

\* session_start: the local wall-clock time of the day, shifted to UTC by
\* the player's offset
SessionStartUtc(d, local_hour, local_minute, tz) ==
    (DayStart(d) + local_hour * 3600 + local_minute * 60) - tz * 3600

\* mutant of PurchaseDraws: the segment is not looked at
PurchaseDrawsAnySegment(D, seg) == D.buy

\* whether a purchase is drawn after a match: only for paying segments
PurchaseDraws(D, seg) ==
    IF seg # "nonpayer" THEN D.buy ELSE {FALSE}

\* mutant of TotalSpend: the price is assigned, not added
TotalSpendAssigned(total, buy, price) == IF buy THEN price ELSE total

\* p.total_spend_eur += price_eur, when a purchase is made
TotalSpend(total, buy, price) == IF buy THEN total + price ELSE total

\* mutant of NextId: an id is skipped
NextIdByTwo(counter) == counter + 2

\* mutant of NextId: the counter is not advanced
NextIdStuck(counter) == counter

\* <counter> += 1
NextId(counter) == counter + 1

\* mutant of FlushBatches: events and purchases are written before sessions
FlushBatchesSessionsLast(d, s, e, pu) ==
    d \o [i \in 1..Len(e) |-> [table |-> "events", row |-> e[i]]]
      \o [i \in 1..Len(pu) |-> [table |-> "purchases", row |-> pu[i]]]
      \o [i \in 1..Len(s) |-> [table |-> "sessions", row |-> s[i]]]

\* mutant of FlushBatches: the purchases are not written
FlushBatchesWithoutPurchases(d, s, e, pu) ==
    d \o [i \in 1..Len(s) |-> [table |-> "sessions", row |-> s[i]]]
      \o [i \in 1..Len(e) |-> [table |-> "events", row |-> e[i]]]

\* flush_batches: sessions, then events, then purchases
FlushBatches(d, s, e, pu) ==
    d \o [i \in 1..Len(s) |-> [table |-> "sessions", row |-> s[i]]]
      \o [i \in 1..Len(e) |-> [table |-> "events", row |-> e[i]]]
      \o [i \in 1..Len(pu) |-> [table |-> "purchases", row |-> pu[i]]]

InitActivity(D) ==
    /\ NUM_DAYS \in D.horizons
    /\ num_players \in D.nplayers
    /\ players \in Populations(D, NUM_DAYS, num_players)
    /\ dau_curve \in [1..NUM_DAYS -> D.dau]
    /\ players_sorted = SortedByCreation(players, Len(players))
    /\ pc = "day"
    /\ InitLocals
    /\ InitGenerators

\* head of `for day_idx, day_start in enumerate(days)` and, inside the
\* iteration, everything up to the sampling of the day's active players
DayStep(D) ==
    /\ pc = "day"
    /\ day_idx < NUM_DAYS
    /\ LET new_idx == AdmitUpTo(players, players_sorted, idx_new, day_idx)
           pool == PoolOfDay(players, players_sorted, active_pool, idx_new, day_idx)
           target_dau == Min(dau_curve[day_idx + 1], Len(pool))
       IN  /\ active_pool' = pool
           /\ idx_new' = new_idx
           /\ IF pool = <<>> \/ target_dau <= 0
              THEN /\ day_idx' = day_idx + 1
                   /\ UNCHANGED <<pc, active_players_today, ap_i>>
              ELSE /\ active_players_today' \in Sample(pool, target_dau)
                   /\ ap_i' = 0
                   /\ pc' = "player"
                   /\ UNCHANGED day_idx
    /\ UNCHANGED <<playerVars, dau_curve, players_sorted, rowVars, counterVars,
                   p, sessions_left, cur, matches_left, genVars>>

\* head of `for p in active_players_today`: the next player and the number
\* of sessions of the day, or the end of the day
PlayerStep(D) ==
    /\ pc = "player"
    /\ IF ap_i < Len(active_players_today)
       THEN /\ p' = active_players_today[ap_i + 1]
            /\ ap_i' = ap_i + 1
            /\ sessions_left' \in
                 {n \in SessionsToday(players[active_players_today[ap_i + 1]].engagement_segment) :
                    n <= D.maxSessionsToday}
            /\ pc' = "session"
            /\ UNCHANGED day_idx
       ELSE /\ day_idx' = day_idx + 1
            /\ pc' = "day"
            /\ UNCHANGED <<p, ap_i, sessions_left>>
    /\ UNCHANGED <<playerVars, poolVars, rowVars, counterVars,
                   active_players_today, cur, matches_left, genVars>>

\* head of `for _ in range(sessions_today)`: one session row and the draw of
\* its number of matches; a session without matches takes `continue`
SessionStep(D) ==
    /\ pc = "session"
    /\ IF sessions_left = 0
       THEN /\ pc' = "player"
            /\ UNCHANGED <<session_rows, session_id_counter, sessions_left, cur,
                           matches_left>>
       ELSE /\ session_id_counter <= D.maxSessions
            /\ \E local_hour \in LOCAL_HOURS \cap D.hours,
                  local_minute \in Randint(D.wide, 0, 59),
                  lognorm \in D.lognorm,
                  num_matches \in (0..4) \cap D.numMatches :
                 LET session_start == SessionStartUtc(day_idx, local_hour, local_minute,
                                                      players[p].time_zone_offset)
                     duration_sec == Max(60, lognorm)
                     session_end == session_start + duration_sec
                 IN  /\ session_rows' = Append(session_rows,
                            [session_id |-> session_id_counter, player_id |-> p,
                             session_start_utc |-> session_start,
                             session_end_utc |-> session_end,
                             duration_sec |-> duration_sec])
                     /\ session_id_counter' = NextId(session_id_counter)
                     /\ sessions_left' = sessions_left - 1
                     /\ IF num_matches = 0
                        THEN /\ UNCHANGED <<pc, matches_left>>
                             /\ cur' = [session_id |-> session_id_counter,
                                        session_start |-> session_start,
                                        duration_sec |-> duration_sec,
                                        match_start_time |-> cur.match_start_time]
                        ELSE /\ \E off \in Randint(D.wide, 0, duration_sec \div 3) :
                                  cur' = [session_id |-> session_id_counter,
                                          session_start |-> session_start,
                                          duration_sec |-> duration_sec,
                                          match_start_time |-> session_start + off]
                             /\ matches_left' = num_matches
                             /\ pc' = "match"
    /\ UNCHANGED <<playerVars, poolVars, event_rows, purchase_rows, db,
                   event_id_counter, purchase_id_counter, match_id_counter,
                   day_idx, active_players_today, ap_i, p, genVars>>

\* head of `for _m in range(num_matches)`: one match with its two events,
\* the level-up and the purchase, or, after the last match, the flush check
MatchStep(D) ==
    /\ pc = "match"
    /\ IF matches_left = 0
       THEN /\ IF Len(session_rows) + Len(event_rows) + Len(purchase_rows) >= BATCH_SIZE
               THEN /\ db' = FlushBatches(db, session_rows, event_rows, purchase_rows)
                    /\ session_rows' = <<>>
                    /\ event_rows' = <<>>
                    /\ purchase_rows' = <<>>
               ELSE UNCHANGED rowVars
            /\ pc' = "session"
            /\ UNCHANGED <<players, counterVars, cur, matches_left>>
       ELSE /\ match_id_counter <= D.maxMatches
            /\ \E game_mode \in GAME_MODES \cap D.modes,
                  outcome \in OUTCOMES \cap D.outcomes,
                  match_sec \in Randint(D.wide, 60, 900),
                  levelup \in D.levelup,
                  buy \in PurchaseDraws(D, players[p].spend_segment),
                  k \in {k \in 1..Len(PRODUCTS) : PRODUCTS[k].sku \in D.skus},
                  delay \in Randint(D.wide, 5, 60),
                  gap \in Randint(D.wide, 10, 120) :
               \E soft_delta \in Randint(D.wideDelta, SoftDeltaRange(outcome)[1],
                                         SoftDeltaRange(outcome)[2]) :
                 LET end_time == cur.match_start_time + match_sec
                     start_row == [event_id |-> event_id_counter, player_id |-> p,
                                   session_id |-> cur.session_id,
                                   event_time_utc |-> cur.match_start_time,
                                   event_type |-> "match_start", game_mode |-> game_mode,
                                   match_outcome |-> "None", level |-> players[p].level,
                                   match_id |-> match_id_counter, soft_delta |-> 0]
                     end_row == [event_id |-> NextId(event_id_counter), player_id |-> p,
                                 session_id |-> cur.session_id,
                                 event_time_utc |-> end_time,
                                 event_type |-> "match_end", game_mode |-> game_mode,
                                 match_outcome |-> outcome, level |-> players[p].level,
                                 match_id |-> match_id_counter, soft_delta |-> soft_delta]
                     purchase_row == [purchase_id |-> purchase_id_counter, player_id |-> p,
                                      session_id |-> cur.session_id,
                                      purchase_time_utc |-> end_time + delay,
                                      product_id |-> PRODUCTS[k].sku,
                                      price_eur |-> PRODUCTS[k].price_cents]
                 IN  /\ event_rows' = event_rows \o <<start_row, end_row>>
                     /\ event_id_counter' = NextId(NextId(event_id_counter))
                     /\ match_id_counter' = NextId(match_id_counter)
                     /\ purchase_rows' = IF buy THEN Append(purchase_rows, purchase_row)
                                         ELSE purchase_rows
                     /\ purchase_id_counter' = IF buy THEN NextId(purchase_id_counter)
                                               ELSE purchase_id_counter
                     /\ players' = [players EXCEPT
                            ![p].level = IF levelup THEN @ + 1 ELSE @,
                            ![p].total_spend_eur =
                                TotalSpend(@, buy, PRODUCTS[k].price_cents)]
                     /\ cur' = [cur EXCEPT !.match_start_time = end_time + gap]
                     /\ matches_left' = matches_left - 1
                     /\ UNCHANGED <<pc, session_rows, session_id_counter, db>>
    /\ UNCHANGED <<NUM_DAYS, num_players, poolVars, day_idx, active_players_today,
                   ap_i, p, sessions_left, genVars>>

\* the final flush, after the day loop
FinalFlush ==
    /\ pc = "day"
    /\ day_idx = NUM_DAYS
    /\ db' = FlushBatches(db, session_rows, event_rows, purchase_rows)
    /\ session_rows' = <<>>
    /\ event_rows' = <<>>
    /\ purchase_rows' = <<>>
    /\ pc' = "done"
    /\ UNCHANGED <<playerVars, poolVars, counterVars, loopVars, genVars>>

NextActivity(D) ==
    \/ DayStep(D)
    \/ PlayerStep(D)
    \/ SessionStep(D)
    \/ MatchStep(D)
    \/ FinalFlush

-----------------------------------------------------------------------------
(* Specifications *)

MaxPlayers == 2         \* population of a run of SpecPool
MaxSessions == 2        \* sessions of a run of Spec
MaxMatches == 2         \* matches of a run of Spec

\* pool runs: every population and DAU curve over three days, one session
\* with at most one match per active player and day
PoolRun ==
    [horizons |-> {3}, nplayers |-> {MaxPlayers}, maxExtraLife |-> 2,
     tz |-> {0}, eng |-> {"casual"}, spend |-> {"nonpayer"}, dau |-> 0..2,
     maxSessionsToday |-> 1, maxSessions |-> 3 * MaxPlayers,
     maxMatches |-> 3 * MaxPlayers, numMatches |-> {0, 1},
     hours |-> {18}, lognorm |-> {600}, wide |-> 0, wideDelta |-> 0,
     modes |-> {"solo"}, outcomes |-> {"win"}, levelup |-> {FALSE},
     buy |-> {FALSE}, skus |-> {"soft_small"}]

SpecPool == InitActivity(PoolRun) /\ [][NextActivity(PoolRun)]_vars

\* row runs: two players over two days, every spend segment, sessions with
\* and without matches, purchases, threshold flushes
RowRun ==
    [horizons |-> {2}, nplayers |-> {2}, maxExtraLife |-> 0,
     tz |-> {0}, eng |-> {"casual"}, spend |-> SPEND_SEGMENTS,
     dau |-> {0, 2},
     maxSessionsToday |-> 2, maxSessions |-> MaxSessions,
     maxMatches |-> MaxMatches, numMatches |-> {0, 1, 2},
     hours |-> {18}, lognorm |-> {600}, wide |-> 0, wideDelta |-> 0,
     modes |-> {"solo"}, outcomes |-> {"win"}, levelup |-> {FALSE},
     buy |-> BOOLEAN, skus |-> {"soft_small"}]

Spec == InitActivity(RowRun) /\ [][NextActivity(RowRun)]_vars

\* time runs: one player on the one day of the horizon, which is the day of
\* creation and the churn day; every time zone and local hour, the ends of
\* the minute, duration, delay and gap draws
TimeRun ==
    [horizons |-> {1}, nplayers |-> {1}, maxExtraLife |-> 0,
     tz |-> pick_country_and_tz, eng |-> {"casual"}, spend |-> {"whale"},
     dau |-> {1},
     maxSessionsToday |-> 1, maxSessions |-> 1,
     maxMatches |-> 2, numMatches |-> {0, 1, 2},
     hours |-> LOCAL_HOURS, lognorm |-> {0, 600, 7200}, wide |-> 1, wideDelta |-> 0,
     modes |-> {"solo"}, outcomes |-> {"win"}, levelup |-> {FALSE},
     buy |-> BOOLEAN, skus |-> {"soft_small"}]

SpecTime == InitActivity(TimeRun) /\ [][NextActivity(TimeRun)]_vars

\* flush runs: two players on the one day of the horizon, each with one or
\* two sessions of no or one match, and one session more than BATCH_SIZE
\* rows, so that sessions without matches can fill the buffers
FlushRun ==
    [horizons |-> {1}, nplayers |-> {2}, maxExtraLife |-> 0,
     tz |-> {0}, eng |-> {"casual"}, spend |-> {"nonpayer"},
     dau |-> {2},
     maxSessionsToday |-> 2, maxSessions |-> BATCH_SIZE + 1,
     maxMatches |-> 2, numMatches |-> {0, 1},
     hours |-> {18}, lognorm |-> {600}, wide |-> 0, wideDelta |-> 0,
     modes |-> {"solo"}, outcomes |-> {"win"}, levelup |-> {FALSE},
     buy |-> {FALSE}, skus |-> {"soft_small"}]

SpecFlush == InitActivity(FlushRun) /\ [][NextActivity(FlushRun)]_vars

\* progress runs: two paying players on the one day of the horizon, one
\* session each with one or two matches, each match with or without a
\* level-up and a purchase of one of two prices
ProgressRun ==
    [horizons |-> {1}, nplayers |-> {2}, maxExtraLife |-> 0,
     tz |-> {0}, eng |-> {"casual"}, spend |-> {"whale"},
     dau |-> {2},
     maxSessionsToday |-> 1, maxSessions |-> 2,
     maxMatches |-> 3, numMatches |-> {1, 2},
     hours |-> {18}, lognorm |-> {600}, wide |-> 0, wideDelta |-> 0,
     modes |-> {"solo"}, outcomes |-> {"win"}, levelup |-> BOOLEAN,
     buy |-> BOOLEAN, skus |-> {"soft_small", "soft_large"}]

SpecProgress == InitActivity(ProgressRun) /\ [][NextActivity(ProgressRun)]_vars

\* match runs: one player on the one day of the horizon, one or two sessions
\* of no, one or two matches, two game modes and every outcome, both ends
\* of the soft_delta draw, each match with or without a level-up
MatchRun ==
    [horizons |-> {1}, nplayers |-> {1}, maxExtraLife |-> 0,
     tz |-> {0}, eng |-> {"casual"}, spend |-> {"nonpayer"},
     dau |-> {1},
     maxSessionsToday |-> 2, maxSessions |-> 2,
     maxMatches |-> 2, numMatches |-> {0, 1, 2},
     hours |-> {18}, lognorm |-> {600}, wide |-> 0, wideDelta |-> 1,
     modes |-> {"solo", "team"}, outcomes |-> OUTCOMES, levelup |-> BOOLEAN,
     buy |-> {FALSE}, skus |-> {"soft_small"}]

SpecMatch == InitActivity(MatchRun) /\ [][NextActivity(MatchRun)]_vars

-----------------------------------------------------------------------------
(* generate_teams_and_memberships *)

MaxTeamPlayers == 5     \* populations of 0..MaxTeamPlayers players, beside the
                        \* two that overfill a medium and a large team by one
MaxTeams == 4           \* teams of a run

SIZE_BUCKETS == {"small", "medium", "large"}

\* max_members of a size bucket; small is the draw random.randint(1, 5)
MaxMembers(size_bucket, small) ==
    CASE size_bucket = "small"  -> small
      [] size_bucket = "medium" -> 25
      [] OTHER                  -> 45

\* tier_level of a size bucket
TierLevel(size_bucket) ==
    CASE size_bucket = "small"  -> 0
      [] size_bucket = "medium" -> 1
      [] OTHER                  -> 2

\* mutant of TeamSize: one member too few
TeamSizeOneShort(max_members, remaining) == Min(max_members, remaining) - 1

\* mutant of TeamSize: the capacity of the team is ignored
TeamSizeWholeRemainder(max_members, remaining) == remaining

\* team_size = min(max_members, remaining)
TeamSize(max_members, remaining) == Min(max_members, remaining)

\* mutant of Members: the offset i is forgotten
MembersFromStart(shuffled, i, team_size) == SubSeq(shuffled, 1, team_size)

\* shuffled_players[i + j] for j in range(team_size)
Members(shuffled, i, team_size) == SubSeq(shuffled, i + 1, i + team_size)

\* mutant of LeaderFlag: the flag goes to the second member
LeaderFlagSecond(j) == IF j = 1 THEN 1 ELSE 0

\* 1 if j == 0 else 0
LeaderFlag(j) == IF j = 0 THEN 1 ELSE 0

\* the outcomes of random.shuffle that are drawn: every order of a list of
\* at most three players, else the list as it is and reversed
Shuffles(pl) ==
    LET n == Len(pl)
    IN  IF n <= 3
        THEN {f \in [1..n -> 1..n] : \A a, b \in 1..n : a # b => f[a] # f[b]}
        ELSE {[k \in 1..n |-> k], [k \in 1..n |-> n + 1 - k]}

\* the population sizes of the team runs
TeamPopulationSizes ==
    (0..MaxTeamPlayers)
    \cup {MaxMembers("medium", 0) + 1, MaxMembers("large", 0) + 1}

\* the call of main: the players of generate_players on a one-day horizon,
\* which are alike but for their ids
InitTeams ==
    /\ NUM_DAYS = 1
    /\ num_players \in TeamPopulationSizes
    /\ players \in Populations(PlayersRun, NUM_DAYS, num_players)
    /\ dau_curve = <<>>
    /\ players_sorted = <<>>
    /\ pc = "teams"
    /\ InitLocals
    /\ shuffled_players \in Shuffles(players)
    /\ team_i = 0
    /\ team_rows = <<>>
    /\ membership_rows = <<>>
    /\ next_team_id = 1
    /\ next_membership_id = 1
    /\ experiment_rows = <<>>
    /\ rel = <<>>

\* one iteration of `while i < len(shuffled_players)`
TeamStep ==
    /\ pc = "teams"
    /\ team_i < Len(shuffled_players)
    /\ next_team_id <= MaxTeams
    /\ \E size_bucket \in SIZE_BUCKETS, small \in 1..5,
          created_day \in Randint(0, 0, NUM_DAYS - 1),
          joined_days \in Randint(0, 0, 60) :
          LET max_members == MaxMembers(size_bucket, small)
              tier_level == TierLevel(size_bucket)
              remaining == Len(shuffled_players) - team_i
              team_size == TeamSize(max_members, remaining)
              members == Members(shuffled_players, team_i, team_size)
          IN  /\ size_bucket # "small" => small = 1
              /\ team_rows' = Append(team_rows,
                     [team_id |-> next_team_id,
                      created_at_utc |-> DayStart(created_day),
                      tier_level |-> tier_level,
                      max_members |-> max_members])
              /\ membership_rows' = membership_rows \o
                     [j \in 1..team_size |->
                        [membership_id |-> next_membership_id + (j - 1),
                         player_id |-> players[members[j]].player_id,
                         team_id |-> next_team_id,
                         joined_at_utc |-> players[members[j]].created_at
                                             + DayStart(joined_days),
                         is_leader |-> LeaderFlag(j - 1)]]
              /\ next_membership_id' = next_membership_id + team_size
              /\ next_team_id' = next_team_id + 1
              /\ team_i' = team_i + team_size
    /\ UNCHANGED <<playerVars, pc, poolVars, rowVars, counterVars, loopVars,
                   shuffled_players, experiment_rows, rel>>

\* after the loop: the two executemany calls and the commit
TeamsInsert ==
    /\ pc = "teams"
    /\ team_i >= Len(shuffled_players)
    /\ db' = db \o [k \in 1..Len(team_rows) |->
                      [table |-> "teams", row |-> team_rows[k]]]
                \o [k \in 1..Len(membership_rows) |->
                      [table |-> "team_memberships", row |-> membership_rows[k]]]
    /\ pc' = "teams_done"
    /\ UNCHANGED <<playerVars, poolVars, session_rows, event_rows, purchase_rows,
                   counterVars, loopVars, genVars>>

NextTeams == TeamStep \/ TeamsInsert

SpecTeams == InitTeams /\ [][NextTeams]_vars

\* the runs of at most MaxTeams players, which no run of MaxTeams teams
\* cuts short; the script runs alone and always takes its next step
InitTeamsLive == InitTeams /\ num_players <= MaxTeams

SpecTeamsLive == InitTeamsLive /\ [][NextTeams]_vars /\ WF_vars(NextTeams)

-----------------------------------------------------------------------------
(* generate_experiments *)

MaxExpPlayers == 4      \* populations of 0..MaxExpPlayers players

VARIANTS == {"Control", "A", "B"}

\* mutant of ExperimentRow: the row is built from the first player of the list
ExperimentRowOfFirst(pl, k, variant) ==
    [experiment_name |-> "shop_pricing_v1", player_id |-> pl[1].player_id,
     variant |-> variant, assigned_at_utc |-> pl[1].created_at]

\* the row appended for p = players[k]
ExperimentRow(pl, k, variant) ==
    [experiment_name |-> "shop_pricing_v1", player_id |-> pl[k].player_id,
     variant |-> variant, assigned_at_utc |-> pl[k].created_at]

InitExperiments ==
    /\ NUM_DAYS = 1
    /\ num_players \in 0..MaxExpPlayers
    /\ players \in Populations(PlayersRun, NUM_DAYS, num_players)
    /\ dau_curve = <<>>
    /\ players_sorted = <<>>
    /\ pc = "experiments"
    /\ InitLocals
    /\ InitGenerators

\* one iteration of `for p in players`
ExperimentStep ==
    /\ pc = "experiments"
    /\ Len(experiment_rows) < Len(players)
    /\ \E variant \in VARIANTS :
          experiment_rows' = Append(experiment_rows,
              ExperimentRow(players, Len(experiment_rows) + 1, variant))
    /\ UNCHANGED <<playerVars, pc, poolVars, rowVars, counterVars, loopVars,
                   teamVars, rel>>

\* after the loop: executemany and commit
ExperimentsInsert ==
    /\ pc = "experiments"
    /\ Len(experiment_rows) = Len(players)
    /\ db' = db \o [k \in 1..Len(experiment_rows) |->
                      [table |-> "experiment_assignments",
                       row |-> experiment_rows[k]]]
    /\ pc' = "experiments_done"
    /\ UNCHANGED <<playerVars, poolVars, session_rows, event_rows, purchase_rows,
                   counterVars, loopVars, genVars>>

NextExperiments == ExperimentStep \/ ExperimentsInsert

SpecExperiments == InitExperiments /\ [][NextExperiments]_vars

-----------------------------------------------------------------------------
(* generate_dau_curve *)
(* The floats of the curve are fixed-point numbers: a relative value is     *)
(* counted in units of 1/10000, and a product is cut to that unit where the *)
(* script rounds to the nearest double.  The multipliers are exact: the     *)
(* seasonal one in 1/100, the patch one in 1/1000, the noise in 1/100.      *)

MaxCurveDays == 3       \* short horizons 1..MaxCurveDays, beside the configured
                        \* one; the draws vary on the days before MaxCurveDays

MAX_DAU == 15000

PATCH_DAYS == <<60, 120, 180>>

\* math.exp(-t / tau_fast) in 1/1000: 1.0 on day 0 and a value of (0, 1] after,
\* which is drawn
ExpDraws(t) ==
    IF t = 0 THEN {1000}
    ELSE IF t < MaxCurveDays THEN {1, 500, 1000}
    ELSE {1}

\* random.uniform(0.95, 1.05) in 1/100
NoiseDraws(t) == IF t < MaxCurveDays THEN {95, 100, 105} ELSE {100}

\* base = long_term_floor + launch_spike_height * exp, with the floor 0.6 and
\* the spike height 0.8
Base(e) == 6000 + 8 * e

\* day_of_year = int(t * (365.0 / max(1, num_days)))
DayOfYear(t, num_days) == (t * 365) \div Max(1, num_days)

\* season_mult: the summer dip and the Christmas spike
SeasonMult(day_of_year) ==
    (IF 150 <= day_of_year /\ day_of_year <= 240 THEN 8 ELSE 10)
    * (IF 330 <= day_of_year /\ day_of_year <= 364 THEN 13 ELSE 10)

\* the factor of one patch day
PatchFactor(t, pd, num_days) ==
    LET dist == IF t >= pd THEN t - pd ELSE pd - t
    IN  IF pd < 0 \/ pd >= num_days THEN 10
        ELSE IF dist = 0 THEN 14
        ELSE IF dist = 1 THEN 12
        ELSE IF dist = 2 THEN 11
        ELSE 10

\* patch_mult after the first k patch days
RECURSIVE PatchMult(_, _, _)
PatchMult(t, k, num_days) ==
    IF k = 0 THEN 1
    ELSE PatchMult(t, k - 1, num_days) * PatchFactor(t, PATCH_DAYS[k], num_days)

\* base * season_mult * patch_mult * noise
RelOfDay(t, num_days, e, noise) ==
    LET seasonal == (Base(e) * SeasonMult(DayOfYear(t, num_days))) \div 100
        patched == (seasonal * PatchMult(t, Len(PATCH_DAYS), num_days)) \div 1000
    IN  (patched * noise) \div 100

\* mutant of MaxRel: the launch day is taken for the peak
MaxRelIsLaunchDay(r) == r[1]

\* max(rel)
MaxRel(r) == CHOOSE x \in {r[k] : k \in 1..Len(r)} : \A k \in 1..Len(r) : r[k] <= x

\* round(num / den) of Python 3: to the nearest integer, a tie to the even one
RoundHalfEven(num, den) ==
    LET q == num \div den
        r == num % den
    IN  IF 2 * r < den THEN q
        ELSE IF 2 * r > den THEN q + 1
        ELSE IF q % 2 = 0 THEN q
        ELSE q + 1

\* scaled = [int(round(MAX_DAU * (x / max_rel))) for x in rel]
Scaled(r) ==
    LET max_rel == MaxRel(r)
    IN  [k \in 1..Len(r) |-> RoundHalfEven(MAX_DAU * r[k], max_rel)]

\* the call generate_dau_curve(NUM_DAYS) of main
InitCurve ==
    /\ NUM_DAYS \in (1..MaxCurveDays) \cup {NUM_DAYS_CONFIGURED}
    /\ num_players = 0
    /\ players = <<>>
    /\ dau_curve = <<>>
    /\ players_sorted = <<>>
    /\ pc = "curve"
    /\ InitLocals
    /\ InitGenerators

\* one iteration of `for t in range(num_days)`
CurveDay ==
    /\ pc = "curve"
    /\ Len(rel) < NUM_DAYS
    /\ \E e \in ExpDraws(Len(rel)), noise \in NoiseDraws(Len(rel)) :
          rel' = Append(rel, RelOfDay(Len(rel), NUM_DAYS, e, noise))
    /\ UNCHANGED <<playerVars, pc, poolVars, rowVars, counterVars, loopVars,
                   teamVars, experiment_rows>>

\* after the loop: the normalisation and the return
CurveReturn ==
    /\ pc = "curve"
    /\ Len(rel) = NUM_DAYS
    /\ dau_curve' = Scaled(rel)
    /\ pc' = "curve_done"
    /\ UNCHANGED <<playerVars, players_sorted, active_pool, idx_new, rowVars,
                   counterVars, loopVars, genVars>>

NextCurve == CurveDay \/ CurveReturn

SpecCurve == InitCurve /\ [][NextCurve]_vars

-----------------------------------------------------------------------------
(* Rows and pool membership, as the claims speak of them *)

\* the rows of a table of the store, in insertion order
Table(t) ==
    LET tagged == SelectSeq(db, LAMBDA r : r.table = t)
    IN  [i \in 1..Len(tagged) |-> tagged[i].row]

\* the rows emitted so far, stored or still buffered, in emission order
EmittedSessions == Table("sessions") \o session_rows
EmittedEvents == Table("events") \o event_rows
EmittedPurchases == Table("purchases") \o purchase_rows

\* the UTC timestamps of the rows emitted so far, each with its player
EmittedTimes ==
    {<<EmittedSessions[i].player_id, EmittedSessions[i].session_start_utc>> :
        i \in 1..Len(EmittedSessions)}
    \cup {<<EmittedSessions[i].player_id, EmittedSessions[i].session_end_utc>> :
        i \in 1..Len(EmittedSessions)}
    \cup {<<EmittedEvents[i].player_id, EmittedEvents[i].event_time_utc>> :
        i \in 1..Len(EmittedEvents)}
    \cup {<<EmittedPurchases[i].player_id, EmittedPurchases[i].purchase_time_utc>> :
        i \in 1..Len(EmittedPurchases)}

InDay == pc \in {"player", "session", "match"}

InPool(q, pool) == \E i \in 1..Len(pool) : pool[i] = q

NoDuplicates(s) == \A i, j \in 1..Len(s) : i # j => s[i] # s[j]

StrictlyIncreasing(ids) == \A i, j \in 1..Len(ids) : i < j => ids[i] < ids[j]

-----------------------------------------------------------------------------
(* Claims *)

\* C1: every player sampled into the active set of day d was created on or
\* before day d and has a churn day index of at least d; so has the player
\* whose sessions, events and purchases are being generated.
C1_ActiveWithinLifetime ==
    InDay =>
        /\ \A i \in 1..Len(active_players_today) :
              LET q == players[active_players_today[i]]
              IN  DateOf(q.created_at) <= day_idx /\ day_idx <= q.churn_day_idx
        /\ pc \in {"session", "match"} =>
              DateOf(players[p].created_at) <= day_idx /\ day_idx <= players[p].churn_day_idx

\* a session is being generated on a day on which one player of the
\* population has already churned and another one is not yet created or
\* was created that very day
C1_Witness ==
    /\ pc = "session"
    /\ sessions_left > 0
    /\ day_idx >= 1
    /\ \E q \in 1..Len(players) : players[q].churn_day_idx < day_idx
    /\ DateOf(players[p].created_at) = day_idx

\* C2: no session, event or purchase timestamp falls after the UTC calendar
\* day of its player's churn day index.
C2_NoTimestampAfterChurnDay ==
    \A t \in EmittedTimes : DateOf(t[2]) <= players[t[1]].churn_day_idx

\* C3: no session, event or purchase timestamp is earlier than its player's
\* creation timestamp.
C3_NoTimestampBeforeCreation ==
    \A t \in EmittedTimes : t[2] >= players[t[1]].created_at

\* a player of the easternmost time zone (+9) starts a session at local
\* noon of the creation day, and a match and a purchase follow
C3_Witness ==
    /\ \E i \in 1..Len(EmittedSessions) :
          LET r == EmittedSessions[i]
          IN  /\ players[r.player_id].time_zone_offset = 9
              /\ r.session_start_utc = players[r.player_id].created_at + 3 * 3600
    /\ EmittedEvents # <<>>
    /\ EmittedPurchases # <<>>

\* C4: every purchase row belongs to a player whose spend segment is minnow,
\* dolphin or whale.
C4_PurchasesOnlyForPayers ==
    \A i \in 1..Len(EmittedPurchases) :
        players[EmittedPurchases[i].player_id].spend_segment \in {"minnow", "dolphin", "whale"}

\* a purchase has been emitted, and a nonpayer has played a match beside it
C4_Witness ==
    /\ EmittedPurchases # <<>>
    /\ \E i \in 1..Len(EmittedEvents) :
          /\ players[EmittedEvents[i].player_id].spend_segment = "nonpayer"
          /\ EmittedEvents[i].event_type = "match_end"

\* C5: the ids of the rows emitted so far are strictly increasing within each
\* type (sessions, events, purchases, and the matches by their start event),
\* and every id in use is below its counter, so it is never given out again.
C5_IdsStrictlyIncreasing ==
    /\ StrictlyIncreasing([i \in 1..Len(EmittedSessions) |-> EmittedSessions[i].session_id])
    /\ StrictlyIncreasing([i \in 1..Len(EmittedEvents) |-> EmittedEvents[i].event_id])
    /\ StrictlyIncreasing([i \in 1..Len(EmittedPurchases) |-> EmittedPurchases[i].purchase_id])
    /\ LET starts == SelectSeq(EmittedEvents, LAMBDA r : r.event_type = "match_start")
       IN  StrictlyIncreasing([i \in 1..Len(starts) |-> starts[i].match_id])
    /\ \A i \in 1..Len(EmittedSessions) : EmittedSessions[i].session_id < session_id_counter
    /\ \A i \in 1..Len(EmittedEvents) :
          /\ EmittedEvents[i].event_id < event_id_counter
          /\ EmittedEvents[i].match_id < match_id_counter
    /\ \A i \in 1..Len(EmittedPurchases) : EmittedPurchases[i].purchase_id < purchase_id_counter

\* rows of every type have been emitted on both sides of a threshold flush
\* and of a day boundary
C5_Witness ==
    /\ db # <<>>
    /\ session_rows # <<>>
    /\ day_idx >= 1
    /\ Len(EmittedSessions) >= 2
    /\ Len(EmittedEvents) >= 4
    /\ Len(EmittedPurchases) >= 2

\* row r carries the id of one of the session rows, of the same player
C6_RowReferencesSession(r, sessions) ==
    \E i \in 1..Len(sessions) :
        /\ sessions[i].session_id = r.session_id
        /\ sessions[i].player_id = r.player_id

\* in the store, every event and purchase row comes after its session row
C6_StoreIntegrity ==
    \A i \in 1..Len(db) :
        db[i].table \in {"events", "purchases"} =>
            \E j \in 1..(i - 1) :
                /\ db[j].table = "sessions"
                /\ db[j].row.session_id = db[i].row.session_id
                /\ db[j].row.player_id = db[i].row.player_id

\* a step that emits an event or purchase row finds its session row emitted
C6_EmittedAfterSession ==
    /\ \A i \in (Len(EmittedEvents) + 1)..Len(EmittedEvents') :
          C6_RowReferencesSession(EmittedEvents'[i], EmittedSessions)
    /\ \A i \in (Len(EmittedPurchases) + 1)..Len(EmittedPurchases') :
          C6_RowReferencesSession(EmittedPurchases'[i], EmittedSessions)

\* C6: every event and purchase row carries the session id of a session row
\* of the same player that was emitted before it, and in the store every
\* event and purchase row comes after the session row it references.
C6_ReferentialIntegrity ==
    /\ []C6_StoreIntegrity
    /\ [][C6_EmittedAfterSession]_vars

\* the run has ended after a threshold flush and the final flush, and the
\* store holds events and purchases of both
C6_Witness ==
    /\ pc = "done"
    /\ \E i, j, k \in 1..Len(db) :
          /\ i < j /\ j < k
          /\ db[i].table = "purchases"
          /\ db[j].table = "sessions"
          /\ db[k].table = "purchases"

\* the active set is a duplicate-free list of min(target, pool size) players
\* of the pool
C7_ActiveSet ==
    InDay =>
        /\ Len(active_players_today) = Min(dau_curve[day_idx + 1], Len(active_pool))
        /\ NoDuplicates(active_players_today)
        /\ \A i \in 1..Len(active_players_today) :
              InPool(active_players_today[i], active_pool)

\* a day whose pool is empty or whose realised DAU is <= 0 ends at once,
\* with no row emitted and no counter advanced
C7_SkippedDayEmitsNothing ==
    (/\ pc = "day"
     /\ day_idx < NUM_DAYS
     /\ \/ active_pool' = <<>>
        \/ Min(dau_curve[day_idx + 1], Len(active_pool')) <= 0)
    => /\ pc' = "day"
       /\ day_idx' = day_idx + 1
       /\ UNCHANGED <<counterVars, rowVars>>

\* C7: on a day that is not skipped the active set consists of exactly
\* min(dau_curve[d], pool size) pairwise distinct players of the pool; on a
\* day with an empty pool or a minimum <= 0 nothing is emitted and no id
\* counter advances.
C7_RealisedDau ==
    /\ []C7_ActiveSet
    /\ [][C7_SkippedDayEmitsNothing]_vars

\* after a day skipped for its DAU target of 0, one of the two players of
\* the pool is active: the target, not the pool, decides
C7_Witness ==
    /\ pc = "player"
    /\ day_idx >= 1
    /\ dau_curve[1] = 0
    /\ Len(active_pool) = 2
    /\ Len(active_players_today) = 1

\* q has been passed by the admission index
AdmittedBefore(q) == \E i \in 1..idx_new : players_sorted[i] = q

\* C8: the pool changes only at the start of a day; a player leaves it only
\* with a churn day index below the day index, enters it only when the
\* admission index, which never moves backwards, passes the player, is never
\* in it twice, and once admitted and out of it never is in it again.
C8_PoolChangesOnlyByChurnAndAdmission ==
    [][/\ idx_new' >= idx_new
       /\ active_pool' # active_pool => pc = "day"
       /\ NoDuplicates(active_pool')
       /\ \A q \in 1..Len(players) :
             /\ (InPool(q, active_pool) /\ ~InPool(q, active_pool'))
                   => players[q].churn_day_idx < day_idx
             /\ (~InPool(q, active_pool) /\ InPool(q, active_pool'))
                   => (~AdmittedBefore(q) /\ AdmittedBefore(q)')
             /\ (AdmittedBefore(q) /\ ~InPool(q, active_pool))
                   => ~InPool(q, active_pool')]_vars

\* a day is under way on which one player has been evicted and another one,
\* admitted later, is in the pool
C8_Witness ==
    /\ InDay
    /\ \E q, r \in 1..Len(players) :
          /\ AdmittedBefore(q)
          /\ ~InPool(q, active_pool)
          /\ InPool(r, active_pool)
          /\ players[r].created_at > players[q].created_at

\* C9: every player generate_players has produced satisfies
\* 0 <= creation-day index <= churn_day_idx <= NUM_DAYS - 1.
C9_ChurnWithinHorizon ==
    \A i \in 1..Len(players) :
        /\ 0 <= DateOf(players[i].created_at)
        /\ DateOf(players[i].created_at) <= players[i].churn_day_idx
        /\ players[i].churn_day_idx <= NUM_DAYS - 1

\* under the configured horizon generate_players has returned a player of
\* the "core" branch and one of the exponential-lifetime branch that was
\* created after day 0 and churns before the last day
C9_Witness ==
    /\ pc = "players_done"
    /\ NUM_DAYS = NUM_DAYS_CONFIGURED
    /\ \E i, j \in 1..Len(players) :
          /\ players[i].churn_day_idx = NUM_DAYS - 1
          /\ players[i].created_at = DayStart(0)
          /\ players[j].created_at > DayStart(0)
          /\ players[j].churn_day_idx < NUM_DAYS - 1

\* C10: for every positive horizon and population size generate_players
\* completes without raising, whatever the creation-date draw.
C10_NeverRaises == pc # "raised"

-----------------------------------------------------------------------------
(* Teams *)

\* the membership rows of a team, in assignment order
RowsOfTeam(rows, t) == SelectSeq(rows, LAMBDA r : r.team_id = t)

\* every player of pids has exactly one row in rows, and rows has no other row
OneRowPerPlayer(rows, pids) ==
    /\ Len(rows) = Cardinality(pids)
    /\ \A q \in pids :
          Cardinality({k \in 1..Len(rows) : rows[k].player_id = q}) = 1

\* C11: the team loop partitions the players: the players taken so far have
\* one membership row each, and at return the stored memberships hold exactly
\* one row per player, each in a stored team, so that the team sizes add up
\* to the number of players
C11_OneMembershipPerPlayer ==
    /\ pc = "teams" =>
          /\ team_i <= Len(shuffled_players)
          /\ OneRowPerPlayer(membership_rows,
                             {shuffled_players[k] : k \in 1..team_i})
    /\ pc = "teams_done" =>
          LET m == Table("team_memberships")
              t == Table("teams")
          IN  /\ OneRowPerPlayer(m, {players[k].player_id : k \in 1..Len(players)})
              /\ Len(m) = num_players
              /\ \A k \in 1..Len(m) :
                    Cardinality({n \in 1..Len(t) : t[n].team_id = m[k].team_id}) = 1

\* a shuffled population of several teams has been stored
C11_Witness ==
    /\ pc = "teams_done"
    /\ num_players = MaxTeamPlayers
    /\ shuffled_players[1] # 1
    /\ Len(Table("teams")) >= 3
    /\ Len(Table("team_memberships")) = MaxTeamPlayers

\* C12: a team never has more membership rows than its stored max_members,
\* and max_members is 1..5 on tier 0, 25 on tier 1 and 45 on tier 2
C12_CapacityRespected ==
    \A n \in 1..Len(team_rows) :
       LET t == team_rows[n]
       IN  /\ Len(RowsOfTeam(membership_rows, t.team_id)) <= t.max_members
           /\ \/ t.tier_level = 0 /\ t.max_members \in 1..5
              \/ t.tier_level = 1 /\ t.max_members = 25
              \/ t.tier_level = 2 /\ t.max_members = 45

\* a medium team is full and a small team took the player it left over
C12_Witness ==
    /\ pc = "teams_done"
    /\ \E n, o \in 1..Len(team_rows) :
          /\ team_rows[n].tier_level = 1
          /\ Len(RowsOfTeam(membership_rows, team_rows[n].team_id)) = 25
          /\ team_rows[o].tier_level = 0
          /\ Len(RowsOfTeam(membership_rows, team_rows[o].team_id)) >= 1

\* C13: every team has exactly one row with the leader flag 1, the row of its
\* first assigned member; every other row of the team has the flag 0
C13_OneLeaderPerTeam ==
    \A n \in 1..Len(team_rows) :
       LET m == RowsOfTeam(membership_rows, team_rows[n].team_id)
       IN  /\ Len(m) >= 1
           /\ m[1].is_leader = 1
           /\ \A k \in 2..Len(m) : m[k].is_leader = 0
           /\ \A k \in 2..Len(m) : m[1].membership_id < m[k].membership_id

\* a team of one member and a team of several members have been built
C13_Witness ==
    \E n, o \in 1..Len(team_rows) :
       /\ Len(RowsOfTeam(membership_rows, team_rows[n].team_id)) = 1
       /\ Len(RowsOfTeam(membership_rows, team_rows[o].team_id)) >= 3

-----------------------------------------------------------------------------
(* Experiments *)

\* C14: generate_experiments stores exactly one assignment row per player,
\* every row of experiment 'shop_pricing_v1' with a variant of Control, A, B,
\* and no (experiment, player) pair twice
C14_OneAssignmentPerPlayer ==
    /\ \A k \in 1..Len(experiment_rows) :
          /\ experiment_rows[k].experiment_name = "shop_pricing_v1"
          /\ experiment_rows[k].variant \in {"Control", "A", "B"}
          /\ experiment_rows[k].player_id = players[k].player_id
    /\ pc = "experiments_done" =>
          LET a == Table("experiment_assignments")
          IN  /\ a = experiment_rows
              /\ OneRowPerPlayer(a, {players[k].player_id : k \in 1..Len(players)})
              /\ NoDuplicates([k \in 1..Len(a) |->
                                 <<a[k].experiment_name, a[k].player_id>>])

\* a population whose assignments use the three variants has been stored
C14_Witness ==
    /\ pc = "experiments_done"
    /\ Len(players) = MaxExpPlayers
    /\ {r.variant : r \in {db[k].row : k \in 1..Len(db)}} = {"Control", "A", "B"}

-----------------------------------------------------------------------------
(* DAU curve *)

\* C15: generate_dau_curve(num_days) returns num_days integers, each of them
\* in 0..MAX_DAU, whatever the noise of the days
C15_CurveWithinPeak ==
    pc = "curve_done" =>
       /\ Len(dau_curve) = NUM_DAYS
       /\ \A t \in 1..NUM_DAYS : dau_curve[t] \in 0..MAX_DAU

\* a curve of the configured horizon whose peak is not the launch day and
\* which has a patch spike
C15_Witness ==
    /\ pc = "curve_done"
    /\ NUM_DAYS = NUM_DAYS_CONFIGURED
    /\ dau_curve[1] < MAX_DAU
    /\ \E t \in 1..NUM_DAYS : dau_curve[t] = MAX_DAU
    /\ dau_curve[PATCH_DAYS[1] + 1] > dau_curve[PATCH_DAYS[1] - 2]

-----------------------------------------------------------------------------
(* Batched persistence *)

\* the combined number of buffered rows
Buffered == Len(session_rows) + Len(event_rows) + Len(purchase_rows)

\* C17: a session row is buffered only while fewer than BATCH_SIZE rows are
\* buffered: buffers that reached the threshold with the rows of a session,
\* with or without matches, are flushed before the next session starts
C17_FlushedBeforeNextSession ==
    [][session_id_counter' # session_id_counter => Buffered < BATCH_SIZE]_vars

\* the ids 1..n in order
IdsUpTo(n) == [k \in 1..n |-> k]

\* C18: no row is lost or written twice by the flushes: the stored rows of a
\* table followed by the buffered ones are the generated rows, once each and
\* in the order of their ids, and at return the buffers are empty, so that
\* the store holds every generated row exactly once
C18_EveryRowStoredOnce ==
    /\ [k \in 1..Len(EmittedSessions) |-> EmittedSessions[k].session_id]
          = IdsUpTo(session_id_counter - 1)
    /\ [k \in 1..Len(EmittedEvents) |-> EmittedEvents[k].event_id]
          = IdsUpTo(event_id_counter - 1)
    /\ [k \in 1..Len(EmittedPurchases) |-> EmittedPurchases[k].purchase_id]
          = IdsUpTo(purchase_id_counter - 1)
    /\ pc = "done" =>
          /\ session_rows = <<>> /\ event_rows = <<>> /\ purchase_rows = <<>>
          /\ Len(Table("sessions")) = session_id_counter - 1
          /\ Len(Table("events")) = event_id_counter - 1
          /\ Len(Table("purchases")) = purchase_id_counter - 1
          /\ Len(db) = (session_id_counter - 1) + (event_id_counter - 1)
                         + (purchase_id_counter - 1)

\* a run has returned after a threshold flush and a final flush that both
\* wrote sessions, events and purchases
C18_Witness ==
    /\ pc = "done"
    /\ Len(Table("purchases")) = 2
    /\ \E i, j, k \in 1..Len(db) :
          /\ i < j /\ j < k
          /\ db[i].table = "events"
          /\ db[j].table = "sessions"
          /\ db[k].table = "events"

-----------------------------------------------------------------------------
(* Player progress *)

\* the step emits a match of player q: its two events are buffered
C19_MatchEmitted(q) ==
    /\ Len(event_rows') = Len(event_rows) + 2
    /\ event_rows'[Len(event_rows')].event_type = "match_end"
    /\ event_rows'[Len(event_rows')].player_id = q

\* the step emits a purchase of player q at the given price
C19_PurchaseEmitted(q, price) ==
    /\ purchase_rows' = Append(purchase_rows, purchase_rows'[Len(purchase_rows')])
    /\ purchase_rows'[Len(purchase_rows')].player_id = q
    /\ purchase_rows'[Len(purchase_rows')].price_eur = price

\* C19: a step changes the level of a player by 0 or by +1, and by +1 only
\* with a match of that player; it changes total_spend_eur by 0 or by the
\* positive price of a purchase it emits for that player; the other players
\* keep both
C19_ProgressMonotone ==
    [][\A q \in 1..Len(players) :
          LET dl == players'[q].level - players[q].level
              ds == players'[q].total_spend_eur - players[q].total_spend_eur
          IN  /\ dl \in {0, 1}
              /\ ds >= 0
              /\ dl = 1 => q = p /\ C19_MatchEmitted(q)
              /\ ds > 0 => q = p /\ C19_MatchEmitted(q) /\ C19_PurchaseEmitted(q, ds)
              /\ q # p => dl = 0 /\ ds = 0]_vars

\* a player has levelled up twice and bought a large and then a small pack,
\* while the other player, who also played, is where they started
C19_Witness ==
    \E q, o \in 1..Len(players) :
       /\ players[q].level = 3
       /\ players[q].total_spend_eur = 999 + 199
       /\ Len(EmittedPurchases) = 2
       /\ EmittedPurchases[2].price_eur = 199
       /\ o # q
       /\ players[o].level = 1 /\ players[o].total_spend_eur = 0
       /\ \E k \in 1..Len(EmittedEvents) : EmittedEvents[k].player_id = o

-----------------------------------------------------------------------------
(* Active pool *)

\* the players whose lifetime, creation day to churn day, holds day d
AliveOn(d) ==
    {q \in 1..Len(players) :
        DateOf(players[q].created_at) <= d /\ d <= players[q].churn_day_idx}

\* C20: on a day whose active set is sampled, the active pool holds exactly
\* the players created on or before that day whose churn day index is that
\* day or a later one, each of them once
C20_PoolIsLifetimeSet ==
    InDay =>
       /\ {active_pool[k] : k \in 1..Len(active_pool)} = AliveOn(day_idx)
       /\ NoDuplicates(active_pool)

\* the active set of the last day is sampled from a pool that holds a player
\* created on that day, whose churn day it is, and that an earlier player has
\* left
C20_Witness ==
    /\ InDay
    /\ day_idx = NUM_DAYS - 1
    /\ day_idx >= 2
    /\ \E q, r \in 1..Len(players) :
          /\ DateOf(players[q].created_at) = day_idx
          /\ players[q].churn_day_idx = day_idx
          /\ InPool(q, active_pool)
          /\ players[r].churn_day_idx = day_idx - 1
          /\ ~InPool(r, active_pool)

-----------------------------------------------------------------------------
(* Match events *)

\* the positions of the emitted events that carry match id m
RowsOfMatch(m) == {k \in 1..Len(EmittedEvents) : EmittedEvents[k].match_id = m}

\* the emitted events at positions k and k + 1 are the pair of one match
C21_IsMatchPair(k) ==
    LET s == EmittedEvents[k]
        e == EmittedEvents[k + 1]
    IN  /\ s.event_type = "match_start" /\ e.event_type = "match_end"
        /\ e.event_id = s.event_id + 1
        /\ e.session_id = s.session_id /\ e.player_id = s.player_id
        /\ e.game_mode = s.game_mode /\ e.level = s.level
        /\ s.match_outcome = "None" /\ s.soft_delta = 0
        /\ e.match_outcome \in {"win", "loss", "draw"} /\ e.soft_delta > 0
        /\ e.event_time_utc > s.event_time_utc

\* every emitted match id is on exactly two event rows, which are a pair,
\* and every event row carries an emitted match id
C21_MatchPairs ==
    /\ \A k \in 1..Len(EmittedEvents) :
          EmittedEvents[k].match_id \in 1..(match_id_counter - 1)
    /\ \A m \in 1..(match_id_counter - 1) :
          \E k \in 1..(Len(EmittedEvents) - 1) :
             RowsOfMatch(m) = {k, k + 1} /\ C21_IsMatchPair(k)

\* the number of emitted events of session sid
EventsOfSession(sid) ==
    Cardinality({k \in 1..Len(EmittedEvents) : EmittedEvents[k].session_id = sid})

\* a step that starts a session emits no event, and a step that runs one of
\* the matches of the session emits two events of that session
C21_TwoEventsPerMatch ==
    /\ session_id_counter' # session_id_counter =>
          /\ EmittedEvents' = EmittedEvents
          /\ EventsOfSession(session_id_counter)' = 0
    /\ (pc = "match" /\ matches_left' = matches_left - 1) =>
          /\ Len(EmittedEvents') = Len(EmittedEvents) + 2
          /\ EventsOfSession(cur.session_id)' = EventsOfSession(cur.session_id) + 2
    /\ (pc = "session" /\ pc' = "match") => matches_left' \in 1..4
    /\ (pc = "match" /\ pc' = "session") => matches_left = 0

\* C21: every match id is on exactly two event rows, a match_start row and
\* the match_end row with the next event id, of the same session, player,
\* game mode and level; the start row has no outcome and soft_delta 0, the
\* end row has the outcome, a positive soft_delta and a later timestamp; a
\* session has two event rows per match and none when it has no match
C21_MatchEventPairs == []C21_MatchPairs /\ [][C21_TwoEventsPerMatch]_vars

\* a session without matches was followed by a session of two matches, the
\* first of them a draw with a level-up, the second a team loss
C21_Witness ==
    /\ pc = "done"
    /\ Len(EmittedSessions) = 2
    /\ Len(EmittedEvents) = 4
    /\ EventsOfSession(1) = 0
    /\ EmittedEvents[2].match_outcome = "draw"
    /\ EmittedEvents[4].match_outcome = "loss"
    /\ EmittedEvents[4].game_mode = "team"
    /\ EmittedEvents[3].level = EmittedEvents[1].level + 1

-----------------------------------------------------------------------------
(* Extra lifetime *)

\* C22: a player of generate_players outlives the creation day unless that
\* day is the last day of the horizon: churn_day_idx is the creation-day
\* index exactly for the players created on day NUM_DAYS - 1, and greater
\* for every other player
C22_ExtraLifeAtLeastOne ==
    \A i \in 1..Len(players) :
       LET birth == DateOf(players[i].created_at)
       IN  /\ birth < NUM_DAYS - 1 => players[i].churn_day_idx > birth
           /\ players[i].churn_day_idx = birth <=> birth = NUM_DAYS - 1

\* generate_players has returned a player created on the last day and a
\* player with one day of extra lifetime that ends before the last day
C22_Witness ==
    /\ pc = "players_done"
    /\ \E i, j \in 1..Len(players) :
          /\ DateOf(players[i].created_at) = NUM_DAYS - 1
          /\ players[i].churn_day_idx = NUM_DAYS - 1
          /\ players[j].churn_day_idx = DateOf(players[j].created_at) + 1
          /\ players[j].churn_day_idx < NUM_DAYS - 1

-----------------------------------------------------------------------------
(* Team loop *)

\* no team is empty, every team but the last one emitted is full, and the
\* team ids and the membership ids count up from 1 in emission order
C23_Shape ==
    /\ \A n \in 1..Len(team_rows) :
          /\ team_rows[n].team_id = n
          /\ Len(RowsOfTeam(membership_rows, n)) >= 1
          /\ n < Len(team_rows) =>
                Len(RowsOfTeam(membership_rows, n)) = team_rows[n].max_members
    /\ \A k \in 1..Len(membership_rows) : membership_rows[k].membership_id = k
    /\ \A k \in 1..(Len(membership_rows) - 1) :
          membership_rows[k].team_id <= membership_rows[k + 1].team_id
    /\ pc = "teams_done" =>
          /\ Table("teams") = team_rows
          /\ Table("team_memberships") = membership_rows
          /\ Len(membership_rows) = num_players

\* an iteration of the loop takes at least one more player
C23_Progress == pc' = "teams" => team_i' > team_i

\* C23: the team loop terminates, and it emits no empty team, fills every
\* team but possibly the last one to max_members, and numbers the teams
\* 1..T and the memberships 1..N in emission order
C23_TeamLoopTerminates ==
    /\ []C23_Shape
    /\ [][C23_Progress]_vars
    /\ <>(pc = "teams_done")

\* the loop has ended after two full teams and a last team below its
\* capacity
C23_Witness ==
    /\ pc = "teams_done"
    /\ Len(team_rows) = 3
    /\ Len(RowsOfTeam(membership_rows, 1)) = 2
    /\ Len(RowsOfTeam(membership_rows, 2)) = 1
    /\ Len(RowsOfTeam(membership_rows, 3)) < team_rows[3].max_members

====
